---- MODULE Spec2Model ----
(***************************************************************************)
(* Model of streamlit_app.py: a Streamlit script that is re-executed from  *)
(* top to bottom on every interaction.  Between two executions only        *)
(* st.session_state, st.query_params and the widget values survive; every  *)
(* aggregate is recomputed by the run.  One action of the model is one     *)
(* interaction together with the complete script run it triggers.          *)
(*                                                                         *)
(* Strings that the script inspects character by character (the query     *)
(* parameter handed to int()) are sequences of one-character strings; all  *)
(* other strings are opaque labels.  A missing cell of the CSV is NaN.     *)
(***************************************************************************)
EXTENDS FiniteSets, Integers, Sequences, TLC

\* ------------------------------------------------------------------ bounds
\* longest dataset drawn from Rows (the fixtures below are longer)
MaxRecords == 2

\* ------------------------------------------------------- values and tables
NaN == "NaN"
None == "None"

\* lines 26-34
state_fips ==
  ("AL" :> 1) @@ ("AK" :> 2) @@ ("AZ" :> 4) @@ ("AR" :> 5) @@ ("CA" :> 6) @@
  ("CO" :> 8) @@ ("CT" :> 9) @@ ("DE" :> 10) @@ ("FL" :> 12) @@ ("GA" :> 13) @@
  ("HI" :> 15) @@ ("ID" :> 16) @@ ("IL" :> 17) @@ ("IN" :> 18) @@ ("IA" :> 19) @@
  ("KS" :> 20) @@ ("KY" :> 21) @@ ("LA" :> 22) @@ ("ME" :> 23) @@ ("MD" :> 24) @@
  ("MA" :> 25) @@ ("MI" :> 26) @@ ("MN" :> 27) @@ ("MS" :> 28) @@ ("MO" :> 29) @@
  ("MT" :> 30) @@ ("NE" :> 31) @@ ("NV" :> 32) @@ ("NH" :> 33) @@ ("NJ" :> 34) @@
  ("NM" :> 35) @@ ("NY" :> 36) @@ ("NC" :> 37) @@ ("ND" :> 38) @@ ("OH" :> 39) @@
  ("OK" :> 40) @@ ("OR" :> 41) @@ ("PA" :> 42) @@ ("RI" :> 44) @@ ("SC" :> 45) @@
  ("SD" :> 46) @@ ("TN" :> 47) @@ ("TX" :> 48) @@ ("UT" :> 49) @@ ("VT" :> 50) @@
  ("VA" :> 51) @@ ("WA" :> 53) @@ ("WV" :> 54) @@ ("WI" :> 55) @@ ("WY" :> 56)

\* line 74: the inverted table, as dict.get (None when the key is absent)
fips_state(n) ==
  IF \E s \in DOMAIN state_fips : state_fips[s] = n
  THEN CHOOSE s \in DOMAIN state_fips : state_fips[s] = n
  ELSE None

\* lines 149-151 (also the options of the radios, lines 213-217)
sex_order == <<"Female", "Male">>
age_order == <<"Baby", "Young", "Adult", "Senior">>
size_order == <<"Small", "Medium", "Large", "Extra Large">>

\* lines 86, 120, 191: .head(10)
TopN == 10

Range(s) == {s[i] : i \in DOMAIN s}

\* ----------------------------------------------------------------- inputs
\* One row of data/allDogDescriptions_new.csv, restricted to the columns the
\* script reads.  dog_id is the row itself: it is never missing.
Row(st, br, ag, sx, sz, ch, dg, ct) ==
  [contact_state |-> st, breed_primary |-> br, age |-> ag, sex |-> sx,
   size |-> sz, env_children |-> ch, env_dogs |-> dg, env_cats |-> ct]

Rows ==
  { Row("CA",  "Labrador", "Baby",  "Female", "Small", "True",  "True",  "True"),
    Row("CA",  "Labrador", "Baby",  "Female", "Small", "True",  "False", NaN),
    Row("CA",  "Poodle",   NaN,     "Female", "Small", "False", "True",  "True"),
    Row(" CA", "Poodle",   "baby",  "Female", "Small", "False", "False", "False"),
    Row("TX",  "Beagle",   "Adult", "Male",   "Extra Large", "True", "False", "False"),
    Row("CA",  NaN,        "Young", "Male",   "Medium", "True",  "True",  "True") }

BreedsOfFixture ==
  <<"Akita", "Boxer", "Collie", "Dachshund", "Eskimo", "Foxhound",
    "Greyhound", "Husky", "Inu", "Jindo", "Kelpie">>

\* eleven breeds in one state, in descending order of label, the first one
\* twice: exercises .head(10)
ManyBreeds ==
  [i \in 1..12 |->
     Row("CA", BreedsOfFixture[IF i = 12 THEN 11 ELSE 12 - i],
         "Baby", "Female", "Small", "True", "True", "True")]

RECURSIVE SeqsUpTo(_, _)
SeqsUpTo(S, n) ==
  IF n = 0 THEN {<<>>}
  ELSE LET shorter == SeqsUpTo(S, n - 1)
       IN  shorter \cup {Append(s, x) : s \in shorter, x \in S}

Datasets == SeqsUpTo(Rows, MaxRecords) \cup {ManyBreeds}

\* values of the _Select_id query parameter: CA, TX, WY (no rows), a number
\* that is no FIPS code, and a text that is no number
QueryValues ==
  { <<"6">>, <<"4", "8">>, <<"5", "6">>, <<"3">>, <<"x">> }

\* ----------------------------------------------------------------- pandas
\* Series.str.strip over the modelled cells (line 11); NaN stays NaN
strip(s) == IF s = " CA" THEN "CA" ELSE s

\* Series.str.title over the modelled cells (lines 220-222)
title(s) == IF s = "baby" THEN "Baby" ELSE s

\* DataFrame.dropna(subset=cols)
dropna(df, cols) == SelectSeq(df, LAMBDA r : \A c \in cols : r[c] # NaN)

\* df[df[col] == v]
where(df, col, v) == SelectSeq(df, LAMBDA r : r[col] = v)

column(df, col) == [i \in DOMAIN df |-> df[i][col]]

\* distinct non-missing values in order of first appearance
RECURSIVE unique(_)
unique(col) ==
  IF col = <<>> THEN <<>>
  ELSE LET init == unique(SubSeq(col, 1, Len(col) - 1))
           last == col[Len(col)]
       IN  IF last = NaN \/ last \in Range(init) THEN init
           ELSE Append(init, last)

count(col, v) == Cardinality({i \in DOMAIN col : col[i] = v})

\* sort_values(ascending=False) as value_counts applies it: equal counts keep
\* the order they had, which is the order of first appearance
RECURSIVE sort_desc(_)
sort_desc(rows) ==
  IF rows = <<>> THEN <<>>
  ELSE LET m == CHOOSE i \in DOMAIN rows :
                  /\ \A j \in DOMAIN rows : rows[j].count <= rows[i].count
                  /\ \A j \in 1..(i - 1) : rows[j].count < rows[i].count
           rest == [k \in 1..(Len(rows) - 1) |->
                      IF k < m THEN rows[k] ELSE rows[k + 1]]
       IN  <<rows[m]>> \o sort_desc(rest)

\* Series.value_counts(): missing values are not counted
value_counts(col) ==
  LET u == unique(col)
  IN  sort_desc([i \in DOMAIN u |-> [breed |-> u[i], count |-> count(col, u[i])]])

head(s, n) == SubSeq(s, 1, IF Len(s) < n THEN Len(s) ELSE n)

index(vc) == [i \in DOMAIN vc |-> vc[i].breed]

\* ------------------------------------------------------------ python bits
\* dict.get(k, default), dict[k] = v
get(m, k, default) == IF k \in DOMAIN m THEN m[k] ELSE default
put(m, k, v) == (k :> v) @@ m

Digits ==
  ("0" :> 0) @@ ("1" :> 1) @@ ("2" :> 2) @@ ("3" :> 3) @@ ("4" :> 4) @@
  ("5" :> 5) @@ ("6" :> 6) @@ ("7" :> 7) @@ ("8" :> 8) @@ ("9" :> 9)

\* int(s) raises ValueError unless s is a decimal numeral
int_raises(s) == s = <<>> \/ \E i \in DOMAIN s : s[i] \notin DOMAIN Digits

RECURSIVE int(_)
int(s) ==
  IF s = <<>> THEN 0
  ELSE 10 * int(SubSeq(s, 1, Len(s) - 1)) + Digits[s[Len(s)]]

\* --------------------------------------------------------------- streamlit
\* A widget without a key is identified by its label and options; its value
\* survives a rerun only under the same identity.  st.selectbox starts at the
\* first option.
selectbox_index(widgets, options) ==
  IF "selectbox" \in DOMAIN widgets /\ widgets["selectbox"].options = options
  THEN widgets["selectbox"].index
  ELSE 1

\* st.radio starts at the first option
radio_value(widgets, label, options) == get(widgets, label, options[1])

\* after a run that reached its end, the values of widgets the run did not
\* create are forgotten; a run cut short by st.stop() or by an exception
\* forgets nothing
finish(env) ==
  IF env.status = "run"
  THEN [env EXCEPT !.status = "done",
                   !.widgets = [w \in env.rendered |-> env.widgets[w]]]
  ELSE env

\* ------------------------------------------------------------- the script
\* The script's namespace while it runs: what survives the run (session_state,
\* widgets), the local names of the script, and what it puts on the page.
BlankPage ==
  [dog_state_metric |-> <<>>, bar_title |-> None, top_breeds2 |-> <<>>,
   state_label |-> None, top_breeds3 |-> <<>>, selected_breed3 |-> None,
   grouped |-> <<>>, top_breeds4 |-> <<>>, selected_breed4 |-> None,
   selected_age |-> None, selected_sex |-> None, selected_size |-> None,
   filtered |-> <<>>, df_compat |-> <<>>, compat |-> "none", warning |-> 0]

Start(file, ss, qp, w) ==
  [csv |-> file, session_state |-> ss, query_params |-> qp, widgets |-> w,
   rendered |-> {}, status |-> "run", df |-> <<>>, selected_state |-> None,
   page |-> BlankPage]

\* lines 9-14
LoadDataset(env) ==
  IF "df" \notin DOMAIN env.session_state
  THEN LET df == [i \in DOMAIN env.csv |->
                    [env.csv[i] EXCEPT !.contact_state = strip(@)]]
       IN  [env EXCEPT !.df = df, !.session_state = put(@, "df", df)]
  ELSE [env EXCEPT !.df = env.session_state["df"]]

\* the values of contact_state in the modelled cells, in Python's str order
sorted_states == <<"CA", "TX">>

\* lines 23-35: groupby("contact_state")["dog_id"].count(), then the id column
Graph1(env) ==
  LET col == column(env.df, "contact_state")
      present == SelectSeq(sorted_states, LAMBDA s : count(col, s) > 0)
      metric == [i \in DOMAIN present |->
                   [contact_state |-> present[i],
                    dog_count |-> count(col, present[i]),
                    id |-> get(state_fips, present[i], NaN)]]
  IN  [env EXCEPT !.page.dog_state_metric = metric]

\* lines 71-76
Line76(env, selected_state) ==
  [env EXCEPT !.selected_state = selected_state,
              !.session_state = put(@, "selected_state", selected_state)]

SelectState(env) ==
  LET selected_fips == get(env.query_params, "_Select_id", <<>>)
  IN  IF selected_fips = <<>> THEN Line76(env, None)
      ELSE IF int_raises(selected_fips) THEN [env EXCEPT !.status = "error"]
      ELSE Line76(env, fips_state(int(selected_fips)))

\* lines 79-103; not reached when line 75 raised
Graph2(env) ==
  IF env.status # "run" THEN env
  ELSE
  LET selected_state == env.selected_state
      dog_state_filtered ==
        IF selected_state # None
        THEN where(env.df, "contact_state", selected_state) ELSE env.df
      top_breeds ==
        head(value_counts(column(dog_state_filtered, "breed_primary")), TopN)
  IN  IF selected_state # None
      THEN [env EXCEPT !.page.top_breeds2 = top_breeds,
                       !.page.bar_title = selected_state]
      ELSE env

\* variant of line 110: dropna(..., inplace=True) on the frame of the session
Line110_inplace(env) ==
  LET kept == dropna(env.session_state["df"],
                     {"breed_primary", "age", "sex", "size", "contact_state"})
  IN  [env EXCEPT !.df = kept, !.session_state = put(@, "df", kept)]

\* line 110: dropna returns a new frame bound to the local name df
Line110(env) ==
  [env EXCEPT !.df = dropna(env.session_state["df"],
                            {"breed_primary", "age", "sex", "size", "contact_state"})]

\* the values of sex, size and age in the modelled cells, in Python's str order
sorted_sex == <<"Female", "Male">>
sorted_size == <<"Extra Large", "Large", "Medium", "Small">>
sorted_age == <<"Adult", "Baby", "Senior", "Young", "baby">>

group_keys ==
  [k \in 1..(Len(sorted_sex) * Len(sorted_size) * Len(sorted_age)) |->
     [sex |-> sorted_sex[((k - 1) \div (Len(sorted_size) * Len(sorted_age))) + 1],
      size |-> sorted_size[(((k - 1) \div Len(sorted_age)) % Len(sorted_size)) + 1],
      age |-> sorted_age[((k - 1) % Len(sorted_age)) + 1]]]

group_size(df, key) ==
  Cardinality({i \in DOMAIN df : /\ df[i].sex = key.sex
                                 /\ df[i].size = key.size
                                 /\ df[i].age = key.age})

\* pd.Categorical(values, categories): a value outside the categories is NaN
Categorical(v, categories) == IF v \in Range(categories) THEN v ELSE NaN

\* lines 142-155: one row per group that occurs in breed_df, sorted by key
grouped(breed_df) ==
  LET observed == SelectSeq(group_keys, LAMBDA key : group_size(breed_df, key) > 0)
  IN  [i \in DOMAIN observed |->
         [sex |-> Categorical(observed[i].sex, sex_order),
          size |-> Categorical(observed[i].size, size_order),
          age |-> Categorical(observed[i].age, age_order),
          count |-> group_size(breed_df, observed[i])]]

\* lines 135-136
Line135(env, top_breeds) ==
  LET i == selectbox_index(env.widgets, top_breeds)
  IN  [env EXCEPT !.widgets = put(@, "selectbox", [options |-> top_breeds, index |-> i]),
                  !.rendered = @ \cup {"selectbox"},
                  !.session_state = put(@, "selected_breed", top_breeds[i]),
                  !.page.selected_breed3 = top_breeds[i]]

\* variant of line 139: the frame of the heatmap also filtered by the age radio
Line139_by_age(env, state_df, selected_breed) ==
  SelectSeq(where(state_df, "breed_primary", selected_breed),
            LAMBDA r : r.age = radio_value(env.widgets, "Age", age_order))

\* line 139
Line139(env, state_df, selected_breed) ==
  where(state_df, "breed_primary", selected_breed)

\* lines 106-175; not reached when line 75 raised
Graph3(env) ==
  IF env.status # "run" \/ "df" \notin DOMAIN env.session_state THEN env
  ELSE
  LET e1 == Line110(env)
      selected_state == get(e1.session_state, "selected_state", None)
      state_df ==
        IF selected_state # None
        THEN where(e1.df, "contact_state", selected_state) ELSE e1.df
      top_breeds == index(head(value_counts(column(state_df, "breed_primary")), TopN))
      e2 == [e1 EXCEPT !.selected_state = selected_state,
                       !.page.state_label = selected_state,
                       !.page.top_breeds3 = top_breeds]
  IN  IF top_breeds = <<>>
      THEN [e2 EXCEPT !.status = "stop", !.page.warning = 133]
      ELSE LET e3 == Line135(e2, top_breeds)
               breed_df == Line139(e3, state_df, e3.page.selected_breed3)
           IN  [e3 EXCEPT !.page.grouped = grouped(breed_df)]

\* variant of line 181: dropna(..., inplace=True) on the frame of the session
Line181_inplace(env) ==
  LET kept == dropna(env.session_state["df"],
                     {"breed_primary", "age", "sex", "size",
                      "env_children", "env_dogs", "env_cats", "contact_state"})
  IN  [env EXCEPT !.df = kept, !.session_state = put(@, "df", kept)]

\* line 181
Line181(env) ==
  [env EXCEPT !.df = dropna(env.session_state["df"],
                            {"breed_primary", "age", "sex", "size",
                             "env_children", "env_dogs", "env_cats", "contact_state"})]

\* variant of lines 194-199: the fallback taken even when the session holds a
\* breed
Line194_fallback_first(env, top_breeds) ==
  IF top_breeds # <<>> THEN top_breeds[1] ELSE None

\* lines 194-199
Line194(env, top_breeds) ==
  IF "selected_breed" \in DOMAIN env.session_state
  THEN env.session_state["selected_breed"]
  ELSE IF top_breeds # <<>> THEN top_breeds[1]
  ELSE None

\* lines 211-217
Radios(env) ==
  LET selected_age == radio_value(env.widgets, "Age", age_order)
      selected_sex == radio_value(env.widgets, "Sex", sex_order)
      selected_size == radio_value(env.widgets, "Size", size_order)
  IN  [env EXCEPT !.widgets = put(put(put(@, "Age", selected_age),
                                      "Sex", selected_sex), "Size", selected_size),
                  !.rendered = @ \cup {"Age", "Sex", "Size"},
                  !.page.selected_age = selected_age,
                  !.page.selected_sex = selected_sex,
                  !.page.selected_size = selected_size]

\* lines 220-228
Filtered(breed_df, selected_age, selected_sex, selected_size) ==
  SelectSeq(breed_df, LAMBDA r : /\ title(r.age) = selected_age
                                 /\ title(r.sex) = selected_sex
                                 /\ title(r.size) = selected_size)

\* line 234: Series.map with a dict; a value that is no key becomes NaN
map_response(v) ==
  IF v = "True" THEN "Yes" ELSE IF v = "False" THEN "No" ELSE NaN

\* lines 233-242
count_responses(filtered, col, label) ==
  LET mapped == [i \in DOMAIN filtered |-> map_response(filtered[i][col])]
  IN  << [Response |-> "Yes", Count |-> count(mapped, "Yes"), Trait |-> label],
         [Response |-> "No", Count |-> count(mapped, "No"), Trait |-> label] >>

\* lines 178-270; not reached when line 75 raised or line 133 stopped the run
Graph4(env) ==
  IF env.status # "run" \/ "df" \notin DOMAIN env.session_state THEN env
  ELSE
  LET e1 == Line181(env)
      selected_state == get(e1.session_state, "selected_state", None)
      df == IF selected_state # None
            THEN where(e1.df, "contact_state", selected_state) ELSE e1.df
      top_breeds == index(head(value_counts(column(df, "breed_primary")), TopN))
      selected_breed == Line194(e1, top_breeds)
      e2 == [e1 EXCEPT !.df = df, !.selected_state = selected_state,
                       !.page.top_breeds4 = top_breeds,
                       !.page.selected_breed4 = selected_breed]
  IN  IF selected_breed = None
      THEN [e2 EXCEPT !.status = "stop", !.page.warning = 204]
      ELSE
      LET breed_df == where(df, "breed_primary", selected_breed)
          e3 == Radios(e2)
          filtered == Filtered(breed_df, e3.page.selected_age,
                               e3.page.selected_sex, e3.page.selected_size)
      IN  IF filtered = <<>>
          THEN [e3 EXCEPT !.page.compat = "info"]
          ELSE [e3 EXCEPT !.page.filtered = filtered,
                          !.page.compat = "chart",
                          !.page.df_compat =
                             count_responses(filtered, "env_children", "Children")
                             \o count_responses(filtered, "env_dogs", "Dogs")
                             \o count_responses(filtered, "env_cats", "Cats")]

\* one execution of the script, top to bottom; st.stop() and an uncaught
\* exception end it where they happen
Script(file, ss, qp, w) ==
  finish(Graph4(Graph3(Graph2(SelectState(Graph1(LoadDataset(
    Start(file, ss, qp, w))))))))

\* -------------------------------------------------------------- the session
VARIABLES
  csv,            \* data/allDogDescriptions_new.csv
  session_state,  \* st.session_state
  query_params,   \* st.query_params
  widgets,        \* the values of the widgets of the page
  page,           \* what the last run put on the page
  status          \* how the last run ended: "none", "done", "stop", "error"

vars == <<csv, session_state, query_params, widgets, page, status>>

Init ==
  /\ csv \in Datasets
  /\ session_state = <<>>
  /\ query_params = <<>>
  /\ widgets = <<>>
  /\ page = BlankPage
  /\ status = "none"

\* the session between two runs
Now ==
  [session_state |-> session_state, query_params |-> query_params,
   widgets |-> widgets, page |-> page, status |-> status]

\* what a finished script run leaves behind
Leaves(env) ==
  /\ query_params' = env.query_params
  /\ session_state' = env.session_state
  /\ widgets' = env.widgets
  /\ page' = env.page
  /\ status' = env.status
  /\ UNCHANGED csv

\* the run after a region selection, which arrives in the query parameter
\* _Select_id (line 71); repeating the current value is a plain rerun (line 67)
OnRegionClicked(s, v) ==
  Script(csv, s.session_state, put(s.query_params, "_Select_id", v), s.widgets)

\* the run after the page is opened without a region selection, or after the
\* selection is cleared
OnRegionCleared(s) == Script(csv, s.session_state, <<>>, s.widgets)

\* the selectbox of line 135 is on the page and has an i-th option
CanChooseBreed(s, i) == s.status = "done" /\ i \in DOMAIN s.page.top_breeds3

\* the run after a choice in the selectbox
OnBreedChosen(s, i) ==
  Script(csv, s.session_state, s.query_params,
         put(s.widgets, "selectbox", [options |-> s.page.top_breeds3, index |-> i]))

\* the radios of lines 213-217 are on the page
CanChooseTrait(s) == s.status = "done"

\* the run after a choice in one of the radios
OnTraitChosen(s, label, v) ==
  Script(csv, s.session_state, s.query_params, put(s.widgets, label, v))

RegionClicked(v) == Leaves(OnRegionClicked(Now, v))

RegionCleared == Leaves(OnRegionCleared(Now))

BreedChosen(i) == CanChooseBreed(Now, i) /\ Leaves(OnBreedChosen(Now, i))

TraitChosen(label, v) == CanChooseTrait(Now) /\ Leaves(OnTraitChosen(Now, label, v))

\* the trait values the interactions choose among
AgeChoices == {"Baby", "Adult"}
SexChoices == {"Female", "Male"}
SizeChoices == {"Small", "Extra Large"}

Next ==
  \/ \E v \in QueryValues : RegionClicked(v)
  \/ RegionCleared
  \/ \E i \in 1..TopN : BreedChosen(i)
  \/ \E v \in AgeChoices : TraitChosen("Age", v)
  \/ \E v \in SexChoices : TraitChosen("Sex", v)
  \/ \E v \in SizeChoices : TraitChosen("Size", v)

Spec == Init /\ [][Next]_vars

\* ------------------------------------------------------------------ claims
\* the dataset as line 11 leaves it
Loaded == [i \in DOMAIN csv |-> [csv[i] EXCEPT !.contact_state = strip(@)]]

\* the rows of df in the selected region (all rows when none is selected)
InRegion(df) ==
  IF get(session_state, "selected_state", None) # None
  THEN where(df, "contact_state", session_state["selected_state"]) ELSE df

Ran == status \in {"done", "stop"}

\* C1 (as claimed): after every run that reached the breed selector,
\* selected_breed is unset when the region's ranking is empty and is a member
\* of that ranking otherwise.
C1_SelectedBreedInRanking ==
  Ran =>
    IF page.top_breeds3 = <<>>
    THEN "selected_breed" \notin DOMAIN session_state
    ELSE /\ "selected_breed" \in DOMAIN session_state
         /\ session_state["selected_breed"] \in Range(page.top_breeds3)

\* rows of the store that match the full selector of the compatibility view
Matching ==
  SelectSeq(InRegion(Loaded),
            LAMBDA r : /\ r.breed_primary = page.selected_breed4
                       /\ title(r.age) = page.selected_age
                       /\ title(r.sex) = page.selected_sex
                       /\ title(r.size) = page.selected_size)

Tally(trait, response) ==
  LET hits == {i \in DOMAIN page.df_compat :
                 /\ page.df_compat[i].Trait = trait
                 /\ page.df_compat[i].Response = response}
  IN  IF hits = {} THEN 0 ELSE page.df_compat[CHOOSE i \in hits : TRUE].Count

TraitColumns ==
  ("Children" :> "env_children") @@ ("Dogs" :> "env_dogs") @@ ("Cats" :> "env_cats")

\* C2 (as claimed): whenever the tally is shown, Yes + No + Unknown of each
\* trait is the number of rows matching the selector, and Unknown is the
\* number of those rows whose value for the trait is missing.
C2_TallyCountsEveryRecord ==
  page.compat = "chart" =>
    \A trait \in DOMAIN TraitColumns :
      /\ Tally(trait, "Yes") + Tally(trait, "No") + Tally(trait, "Unknown")
           = Len(Matching)
      /\ Tally(trait, "Unknown")
           = count(column(Matching, TraitColumns[trait]), NaN)

\* C3 (as claimed): the cross-tabulation has exactly one row, with a count of
\* at least 0, for every (sex, size, age) of the declared domains.
C3_CrosstabIsComplete ==
  status = "done" =>
    /\ Len(page.grouped) = Len(sex_order) * Len(size_order) * Len(age_order)
    /\ \A sx \in Range(sex_order), sz \in Range(size_order), ag \in Range(age_order) :
         Cardinality({i \in DOMAIN page.grouped :
                        /\ page.grouped[i].sex = sx
                        /\ page.grouped[i].size = sz
                        /\ page.grouped[i].age = ag
                        /\ page.grouped[i].count >= 0}) = 1

\* the modelled breed labels in ascending order
LabelsAscending ==
  <<"Akita", "Beagle", "Boxer", "Collie", "Dachshund", "Eskimo", "Foxhound",
    "Greyhound", "Husky", "Inu", "Jindo", "Kelpie", "Labrador", "Poodle">>

LabelRank(b) == CHOOSE i \in DOMAIN LabelsAscending : LabelsAscending[i] = b

\* breeds of col by count descending, ties by label ascending, first TopN
RankingByLabel(col) ==
  LET labels == SelectSeq(LabelsAscending, LAMBDA b : count(col, b) > 0)
      Before(a, b) == \/ count(col, a) > count(col, b)
                      \/ count(col, a) = count(col, b) /\ LabelRank(a) < LabelRank(b)
      Place(b) == 1 + Cardinality({a \in Range(labels) : Before(a, b)})
      sorted == [k \in DOMAIN labels |-> CHOOSE b \in Range(labels) : Place(b) = k]
  IN  head(sorted, TopN)

\* C4 (as claimed): the ranking of the bar chart and the ranking of the breed
\* selector are the first 10 breeds by count descending, ties by label
\* ascending, whatever the order of the rows.
C4_RankingTiesByLabel ==
  /\ page.bar_title # None =>
       index(page.top_breeds2)
         = RankingByLabel(column(InRegion(Loaded), "breed_primary"))
  /\ Ran =>
       page.top_breeds3
         = RankingByLabel(column(InRegion(dropna(Loaded,
             {"breed_primary", "age", "sex", "size", "contact_state"})),
             "breed_primary"))

\* C5: when a ranking of the region is empty the compatibility view shows no
\* tally: with an empty selector ranking the run ends at the no-data warning
\* of line 133.  When the ranking is not empty and the selector holds no choice
\* for it, the view uses the first breed of the ranking.
C5_EmptyRankingGivesEmptyResult ==
  /\ [](Ran /\ (page.top_breeds3 = <<>> \/ page.top_breeds4 = <<>>)
          => page.compat # "chart" /\ page.df_compat = <<>>)
  /\ [](Ran /\ page.top_breeds3 = <<>>
          => status = "stop" /\ page.warning = 133 /\ page.compat = "none")
  /\ [][ /\ status' = "done"
         /\ \/ "selectbox" \notin DOMAIN widgets
            \/ widgets["selectbox"].options # page'.top_breeds3
         => page'.selected_breed4 = page'.top_breeds3[1] ]_vars

\* C5 witnesses: a region without rows after a breed was chosen elsewhere, and
\* a fresh ranking whose first breed the compatibility view uses
C5_Witness ==
  /\ status = "stop"
  /\ page.warning = 133
  /\ "selected_breed" \in DOMAIN session_state
  /\ session_state["selected_state"] = "WY"

Unmapped(v) == IF int_raises(v) THEN TRUE ELSE fips_state(int(v)) = None

\* C6 (as claimed): a run whose region code has no entry in the region table
\* ends in an error.
C6_UnknownRegionIsAnError ==
  /\ status # "none"
  /\ "_Select_id" \in DOMAIN query_params
  /\ Unmapped(query_params["_Select_id"])
  => status = "error"

RECURSIVE SumCounts(_)
SumCounts(rows) ==
  IF rows = <<>> THEN 0 ELSE rows[1].count + SumCounts(Tail(rows))

\* C7: the dataset kept in the session is the loaded one after every run and
\* no step changes it, and every aggregate on the page is computed from all
\* loaded rows less only the rows its own missing-field rule removes.
C7_StoreUnchangedAndDropsLocal ==
  /\ [](status # "none" => session_state["df"] = Loaded)
  /\ [][ "df" \in DOMAIN session_state
         => session_state'["df"] = session_state["df"] ]_vars
  /\ [](Ran => /\ \A i \in DOMAIN page.dog_state_metric :
                    page.dog_state_metric[i].dog_count
                      = count(column(Loaded, "contact_state"),
                              page.dog_state_metric[i].contact_state)
               /\ page.bar_title # None =>
                    \A i \in DOMAIN page.top_breeds2 :
                      page.top_breeds2[i].count
                        = count(column(InRegion(Loaded), "breed_primary"),
                                page.top_breeds2[i].breed))
  /\ [](status = "done" =>
          /\ SumCounts(page.grouped)
               = Len(where(InRegion(dropna(Loaded,
                   {"breed_primary", "age", "sex", "size", "contact_state"})),
                   "breed_primary", page.selected_breed3))
          /\ page.filtered
               = Filtered(where(InRegion(dropna(Loaded,
                   {"breed_primary", "age", "sex", "size", "env_children",
                    "env_dogs", "env_cats", "contact_state"})),
                   "breed_primary", page.selected_breed4),
                   page.selected_age, page.selected_sex, page.selected_size))

\* C7 witness: after more than one run (a trait was chosen) the bar chart
\* still counts a breed whose rows the selector drops, and the compatibility
\* view still has rows
C7_Witness ==
  /\ status = "done"
  /\ page.bar_title # None
  /\ page.selected_sex = "Male"
  /\ Len(page.top_breeds2) > Len(page.top_breeds3)
  /\ page.top_breeds4 # <<>>

\* two runs that leave the same session behind
SameOutcome(a, b) ==
  /\ a.session_state = b.session_state
  /\ a.query_params = b.query_params
  /\ a.widgets = b.widgets
  /\ a.page = b.page
  /\ a.status = b.status

IdemRegionClicked(once, v) == SameOutcome(once, OnRegionClicked(once, v))
IdemRegionCleared(once) == SameOutcome(once, OnRegionCleared(once))
IdemBreedChosen(once, i) ==
  CanChooseBreed(once, i) /\ SameOutcome(once, OnBreedChosen(once, i))
IdemTraitChosen(once, label, v) ==
  CanChooseTrait(once) /\ SameOutcome(once, OnTraitChosen(once, label, v))

TraitChoices ==
  ("Age" :> AgeChoices) @@ ("Sex" :> SexChoices) @@ ("Size" :> SizeChoices)

\* C8: in every reachable state, every event that can happen there, applied
\* a second time with the same payload, leaves the region, the breed, the
\* trait selectors and all aggregates as the first application left them.
C8_EventsAreIdempotent ==
  /\ \A v \in QueryValues : IdemRegionClicked(OnRegionClicked(Now, v), v)
  /\ IdemRegionCleared(OnRegionCleared(Now))
  /\ \A i \in 1..TopN :
       CanChooseBreed(Now, i) => IdemBreedChosen(OnBreedChosen(Now, i), i)
  /\ \A label \in DOMAIN TraitChoices :
       \A v \in TraitChoices[label] :
         CanChooseTrait(Now) =>
           IdemTraitChosen(OnTraitChosen(Now, label, v), label, v)

\* C8 witness: a region, a breed other than the first and a trait other than
\* the first are selected, so each kind of event has acted
C8_Witness ==
  /\ status = "done"
  /\ session_state["selected_state"] = "CA"
  /\ widgets["selectbox"].index = 2
  /\ page.selected_sex = "Male"

\* what a trait selection must leave alone
TraitFrame(before, after) ==
  /\ after.session_state["selected_state"] = before.session_state["selected_state"]
  /\ after.session_state["selected_breed"] = before.session_state["selected_breed"]
  /\ after.page.dog_state_metric = before.page.dog_state_metric
  /\ after.page.bar_title = before.page.bar_title
  /\ after.page.top_breeds2 = before.page.top_breeds2
  /\ after.page.top_breeds3 = before.page.top_breeds3
  /\ after.page.selected_breed3 = before.page.selected_breed3
  /\ after.page.grouped = before.page.grouped
  /\ after.page.top_breeds4 = before.page.top_breeds4
  /\ after.page.selected_breed4 = before.page.selected_breed4

\* C9: in every reachable state, a trait selection leaves the region, the
\* breed, the region counts, the rankings and the cross-tabulation as they
\* are.
C9_TraitChoiceFrame ==
  \A label \in DOMAIN TraitChoices :
    \A v \in TraitChoices[label] :
      CanChooseTrait(Now) => TraitFrame(Now, OnTraitChosen(Now, label, v))

\* C9 witness: traits other than the first ones were chosen and the tally of
\* the chosen combination is shown
C9_Witness ==
  /\ status = "done"
  /\ page.selected_age = "Adult"
  /\ page.selected_size = "Extra Large"
  /\ page.compat = "chart"
  /\ page.grouped # <<>>

\* C10 (as claimed): in a run with a region selected, the bar chart, the breed
\* selector and the compatibility view have the same ranking, and the breed
\* of the compatibility view is in that view's ranking.
C10_RankingsAgree ==
  status = "done" /\ page.bar_title # None =>
    /\ index(page.top_breeds2) = page.top_breeds3
    /\ page.top_breeds3 = page.top_breeds4
    /\ page.selected_breed4 \in Range(page.top_breeds4)

====
